---- MODULE Spec2Model ----
(***************************************************************************)
(* Graph container backed by a packed band ("chunk") adjacency matrix.     *)
(*                                                                         *)
(*   AdjacencyMatrix<T>  src/src/matrix.rs       data: Vec<T>, size        *)
(*   Graph<N, E>         src/graph/src/graph.rs  edges, nodes, directed    *)
(*                                                                         *)
(* Indices are zero-based as in the code; a Vec is a TLA+ sequence, so     *)
(* the element at code index i is seq[i + 1].                              *)
(*                                                                         *)
(* Graph is generic in N and E and never inspects a payload.  The driver   *)
(* of the model picks payloads that make every node and every edge         *)
(* recognisable: the payload of a node is the serial number of the         *)
(* add_node call that made it, and the payload of an edge carries, next    *)
(* to a freely chosen value, the payloads of the two nodes the set_edge    *)
(* call named.                                                             *)
(***************************************************************************)
EXTENDS Integers, Sequences, FiniteSets

VARIABLES
    directed,   \* Graph::directed, fixed at construction
    nodes,      \* Graph::nodes, Vec<N>
    data,       \* Graph::edges.data, Vec<MatrixCell<E>>
    size,       \* Graph::edges.size
    adds,       \* number of add_node calls made so far
    removes,    \* number of remove_node calls made so far
    calls,      \* number of mutating calls made so far
    plain,      \* TRUE while the only calls made are add_node and set_edge
                \* on a pair that held no edge
    last,       \* the call that produced the current state
    w,          \* maze program: args.width (0 when no maze is built)
    h,          \* maze program: args.height
    edge_refs   \* maze program: the EdgeRefs of the shuffled queue that the
                \* Kruskal loop has not visited yet

vars == <<directed, nodes, data, size, adds, removes, calls, plain, last,
          w, h, edge_refs>>

----------------------------------------------------------------------------
(* Bounds of the exploration *)

MaxCalls == 6       \* a graph receives at most MaxCalls mutating calls

EdgeValues == {1, 2}    \* the values set_edge is called with

MaxCells == 8       \* a maze has at most MaxCells cells (width * height)

----------------------------------------------------------------------------
(* MatrixCell<T> and Option<T> *)

Empty == [tag |-> "Empty"]

Edge(e) == [tag |-> "Edge", value |-> e]

is_empty(cell) == cell.tag = "Empty"

is_edge(cell) == ~is_empty(cell)

None == [tag |-> "None"]

Some(x) == [tag |-> "Some", val |-> x]

\* the outcome of a call that panics instead of returning
Panic == [tag |-> "Panic"]

IsSome(opt) == opt.tag = "Some"

\* the payload handed to set_edge(a, b, _): value v, tagged with the
\* payloads of the nodes at a and b
EdgeVal(v, na, nb) == [v |-> v, from |-> na, to |-> nb]

NoVal == EdgeVal(0, 0, 0)

----------------------------------------------------------------------------
(* AdjacencyMatrix *)

chunk_len(chunk) == (chunk * 2) + 1

\* the offset of a chunk in a packed triangular matrix
chunk_offset_Tri(chunk) == (chunk * (chunk + 1)) \div 2

chunk_offset(chunk) == chunk * chunk

\* Position with the else branch written (y, x): both orders of a pair share
\* a slot
Position_Sym(x, y) == IF x > y THEN <<x, y>> ELSE <<y, x>>

\* (chunk, position) of the pair (x, y), as computed by get and get_mut
Position(x, y) == IF x > y THEN <<x, y>> ELSE <<y, x + y>>

\* flat index into data of the pair (x, y)
FlatIndex(x, y) == chunk_offset(Position(x, y)[1]) + Position(x, y)[2]

\* data[offset + position] is an out-of-bounds panic unless this holds
InBounds(d, x, y) == FlatIndex(x, y) < Len(d)

get(d, x, y) == d[FlatIndex(x, y) + 1]

\* set that leaves a slot alone once it holds an edge
set_IfVacant(d, x, y, value) ==
    IF is_edge(d[FlatIndex(x, y) + 1]) /\ is_edge(value)
    THEN d
    ELSE [d EXCEPT ![FlatIndex(x, y) + 1] = value]

set(d, x, y, value) == [d EXCEPT ![FlatIndex(x, y) + 1] = value]

\* push_default with a chunk one slot short
push_default_Short(d, sz) == d \o [i \in 1..(sz * 2) |-> Empty]

\* push_default putting the new chunk in front of the others
push_default_Front(d, sz) == [i \in 1..chunk_len(sz) |-> Empty] \o d

\* push_default reading the length of the chunk after it has counted the
\* node
push_default_Late(d, sz) == d \o [i \in 1..chunk_len(sz + 1) |-> Empty]

push_default(d, sz) == d \o [i \in 1..chunk_len(sz) |-> Empty]

\* the filter_map of remove without its first arm: the chunk of the removed
\* node stays
Keep_Chunk(ch, inn_i, remove) ==
    CASE inn_i = remove /\ ch > remove -> FALSE
      [] inn_i = (2 * remove) + 1 /\ ch > remove -> FALSE
      [] OTHER -> TRUE

\* the filter_map of remove with a further arm that drops the slot of the
\* pair (remove, ch) as well
Keep_Third(ch, inn_i, remove) ==
    CASE ch = remove -> FALSE
      [] inn_i = remove /\ ch > remove -> FALSE
      [] inn_i = (2 * remove) + 1 /\ ch > remove -> FALSE
      [] inn_i = ch + remove /\ ch > remove -> FALSE
      [] OTHER -> TRUE

\* the filter_map of remove: TRUE when the element at position inn_i of
\* chunk ch is kept
Keep(ch, inn_i, remove) ==
    CASE ch = remove -> FALSE
      [] inn_i = remove /\ ch > remove -> FALSE
      [] inn_i = (2 * remove) + 1 /\ ch > remove -> FALSE
      [] OTHER -> TRUE

\* the scan state of remove, advanced on reaching flat index i
ScanStep(st, i) ==
    IF st.next_offset = i
    THEN [chunk |-> st.next_chunk,
          next_chunk |-> st.next_chunk + 1,
          offset |-> st.next_offset,
          next_offset |-> chunk_offset(st.next_chunk + 1)]
    ELSE st

ScanInit == [next_chunk |-> 0, next_offset |-> 0, offset |-> 0, chunk |-> 0]

RECURSIVE RemoveFrom(_, _, _, _)
RemoveFrom(d, i, st, remove) ==
    IF i >= Len(d)
    THEN <<>>
    ELSE LET st1 == ScanStep(st, i)
             inner_i == i - st1.offset
         IN  (IF Keep(st1.chunk, inner_i, remove) THEN <<d[i + 1]>> ELSE <<>>)
                 \o RemoveFrom(d, i + 1, st1, remove)

\* new_data of AdjacencyMatrix::remove (size is left as it is)
remove(d, r) == RemoveFrom(d, 0, ScanInit, r)

\* the iterator stopping one element early
RECURSIVE IterFrom_Short(_, _, _, _)
IterFrom_Short(d, index, inner_index, chunk) ==
    IF index + 1 < Len(d)
    THEN LET xy == IF chunk > inner_index
                   THEN <<chunk, inner_index>>
                   ELSE <<inner_index - chunk, chunk>>
             wrap == index + 1 >= chunk_offset(chunk + 1)
         IN  <<<<xy[1], xy[2], d[index + 1]>>>>
                 \o IterFrom_Short(d, index + 1,
                                   IF wrap THEN 0 ELSE inner_index + 1,
                                   IF wrap THEN chunk + 1 ELSE chunk)
    ELSE <<>>

\* the iterator naming the pairs of the second half of a chunk the wrong way
\* round
RECURSIVE IterFrom_Swapped(_, _, _, _)
IterFrom_Swapped(d, index, inner_index, chunk) ==
    IF index < Len(d)
    THEN LET xy == IF chunk > inner_index
                   THEN <<chunk, inner_index>>
                   ELSE <<chunk, inner_index - chunk>>
             wrap == index + 1 >= chunk_offset(chunk + 1)
         IN  <<<<xy[1], xy[2], d[index + 1]>>>>
                 \o IterFrom_Swapped(d, index + 1,
                                     IF wrap THEN 0 ELSE inner_index + 1,
                                     IF wrap THEN chunk + 1 ELSE chunk)
    ELSE <<>>

\* AdjacencyMatrixIterator: the triples <<x, y, cell>> produced by next()
\* from the iterator state (index, inner_index, chunk) until it yields None
RECURSIVE IterFrom(_, _, _, _)
IterFrom(d, index, inner_index, chunk) ==
    IF index < Len(d)
    THEN LET xy == IF chunk > inner_index
                   THEN <<chunk, inner_index>>
                   ELSE <<inner_index - chunk, chunk>>
             wrap == index + 1 >= chunk_offset(chunk + 1)
         IN  <<<<xy[1], xy[2], d[index + 1]>>>>
                 \o IterFrom(d, index + 1,
                             IF wrap THEN 0 ELSE inner_index + 1,
                             IF wrap THEN chunk + 1 ELSE chunk)
    ELSE <<>>

iter(d) == IterFrom(d, 0, 0, 0)

----------------------------------------------------------------------------
(* Graph: queries *)

node_count == Len(nodes)

IsEdgeItem(t) == is_edge(t[3])

CountEdges(d) == Len(SelectSeq(iter(d), IsEdgeItem))

edge_count == CountEdges(data)

\* the pair passed on as given, in either mode
Canon_Raw(dir, index_a, index_b) == <<index_a, index_b>>

\* the (a, b) that set_edge, remove_edge and edge pass to the matrix
Canon(dir, index_a, index_b) ==
    IF ~dir /\ index_a < index_b
    THEN <<index_b, index_a>>
    ELSE <<index_a, index_b>>

NodeRef(index, value) == [index |-> index, value |-> value]

EdgeRef(value, a, b) == [value |-> value, index_a |-> a, index_b |-> b]

\* node with the bound test written >=
NodeIn_Inclusive(ns, index) ==
    IF Len(ns) >= index
    THEN IF index < Len(ns) THEN Some(NodeRef(index, ns[index + 1])) ELSE Panic
    ELSE None

NodeIn(ns, index) ==
    IF Len(ns) > index THEN Some(NodeRef(index, ns[index + 1])) ELSE None

node(index) == NodeIn(nodes, index)

EdgeIn(dir, ns, d, index_a, index_b) ==
    LET ab == Canon(dir, index_a, index_b)
        a == ab[1]
        b == ab[2]
    IN  IF Len(ns) > a /\ Len(ns) > b
        THEN IF ~InBounds(d, a, b)
             THEN Panic
             ELSE IF is_empty(get(d, a, b))
                  THEN None
                  ELSE Some(EdgeRef(get(d, a, b).value, a, b))
        ELSE None

edge(index_a, index_b) == EdgeIn(directed, nodes, data, index_a, index_b)

\* EdgeIterator: the EdgeRefs of the cells of the matrix iterator that hold
\* an edge
EdgesOf(d) ==
    LET items == SelectSeq(iter(d), IsEdgeItem)
    IN  [k \in 1..Len(items) |->
            EdgeRef(items[k][3].value, items[k][1], items[k][2])]

edges == EdgesOf(data)

\* the adjacent-edge filter keeping the edges that leave the node only
AdjEdgesOf_Outgoing(d, index) ==
    LET IsAdj(t) == is_edge(t[3]) /\ t[1] = index
        items == SelectSeq(iter(d), IsAdj)
    IN  [k \in 1..Len(items) |->
            EdgeRef(items[k][3].value, items[k][1], items[k][2])]

\* AdjEdgeIterator of the NodeRef with the given index: the EdgeRefs of the
\* cells of the matrix iterator that hold an edge and name the index
AdjEdgesOf(d, index) ==
    LET IsAdj(t) == is_edge(t[3]) /\ (t[1] = index \/ t[2] = index)
        items == SelectSeq(iter(d), IsAdj)
    IN  [k \in 1..Len(items) |->
            EdgeRef(items[k][3].value, items[k][1], items[k][2])]

\* node(index).iter_edges()
iter_edges(index) == AdjEdgesOf(data, index)

\* Option::unwrap
unwrap(opt) == IF IsSome(opt) THEN opt.val ELSE Panic

\* EdgeRef::a and EdgeRef::b
EdgeRef_a(e) == unwrap(node(e.index_a))

EdgeRef_b(e) == unwrap(node(e.index_b))

\* NodeIterator::new
NodeIterator_new == [current |-> 0]

\* next() advancing the cursor before it reads the node
NodeIterator_next_Pre(ns, it) ==
    [item |-> NodeIn(ns, it.current + 1), it |-> [current |-> it.current + 1]]

\* NodeIterator::next: the item returned and the iterator afterwards
NodeIterator_next(ns, it) ==
    [item |-> NodeIn(ns, it.current), it |-> [current |-> it.current + 1]]

\* the items of k successive next() calls on the iterator it
RECURSIVE NodeIteratorRun(_, _, _)
NodeIteratorRun(ns, it, k) ==
    IF k = 0
    THEN <<>>
    ELSE <<NodeIterator_next(ns, it).item>>
             \o NodeIteratorRun(ns, NodeIterator_next(ns, it).it, k - 1)

\* the payload of an Option<EdgeRef>, None when there is no edge
ValueOf(opt) == IF IsSome(opt) THEN Some(opt.val.value) ELSE None

----------------------------------------------------------------------------
(* Graph: construction and mutators *)

\* the value () that every mutator of Graph returns
Unit == [tag |-> "Unit"]

\* a call as the driver records it: its name and arguments, what edge(a, b)
\* returned just before it (set_edge and remove_edge), whether it panicked,
\* and what it returned if it did not
Call(op, a, b, v, old, panic) ==
    [op |-> op, a |-> a, b |-> b, v |-> v, old |-> old, panic |-> panic,
     ret |-> Unit]

Init ==
    /\ directed \in BOOLEAN
    /\ nodes = <<>>
    /\ data = <<>>
    /\ size = 0
    /\ adds = 0
    /\ removes = 0
    /\ calls = 0
    /\ plain = TRUE
    /\ last = Call("new", 0, 0, NoVal, None, FALSE)
    /\ w = 0
    /\ h = 0
    /\ edge_refs = {}

\* add_node putting the new node in front of the others
AddNode_Front ==
    /\ data' = push_default(data, size)
    /\ size' = size + 1
    /\ nodes' = <<adds + 1>> \o nodes
    /\ adds' = adds + 1
    /\ last' = Call("add_node", node_count, 0, NoVal, None, FALSE)
    /\ UNCHANGED <<directed, removes, plain>>

\* add_node(value): the value is the serial number of the call
AddNode ==
    /\ data' = push_default(data, size)
    /\ size' = size + 1
    /\ nodes' = Append(nodes, adds + 1)
    /\ adds' = adds + 1
    /\ last' = Call("add_node", node_count, 0, NoVal, None, FALSE)
    /\ UNCHANGED <<directed, removes, plain>>

\* Vec::swap_remove in place of Vec::remove
RemoveAt_Swap(ns, index) ==
    [i \in 1..(Len(ns) - 1) |-> IF i = index + 1 THEN ns[Len(ns)] ELSE ns[i]]

RemoveAt(ns, index) == SubSeq(ns, 1, index) \o SubSeq(ns, index + 2, Len(ns))

\* remove_node(index): edges.remove(index), then nodes.remove(index)
RemoveNode(index) ==
    /\ removes' = removes + 1
    /\ plain' = FALSE
    /\ IF ~(index < size)
       THEN /\ last' = Call("remove_node", index, 0, NoVal, None, TRUE)
            /\ UNCHANGED <<data, nodes>>
       ELSE /\ data' = remove(data, index)
            /\ IF index < Len(nodes)
               THEN /\ nodes' = RemoveAt(nodes, index)
                    /\ last' = Call("remove_node", index, 0, NoVal, None, FALSE)
               ELSE /\ last' = Call("remove_node", index, 0, NoVal, None, TRUE)
                    /\ UNCHANGED nodes
    /\ UNCHANGED <<directed, size, adds>>

\* the payload of the node at index, 0 when there is none
PayloadAt(index) == IF index < Len(nodes) THEN nodes[index + 1] ELSE 0

\* edges.set on the canonical pair and on its mirror image
SetCell_Mirror(index_a, index_b, cell) ==
    LET ab == Canon(directed, index_a, index_b)
    IN  IF InBounds(data, ab[1], ab[2]) /\ InBounds(data, ab[2], ab[1])
        THEN set(set(data, ab[1], ab[2], cell), ab[2], ab[1], cell)
        ELSE data

\* edges.set(a, b, cell) on the canonical pair of (index_a, index_b)
SetCell(index_a, index_b, cell) ==
    LET ab == Canon(directed, index_a, index_b)
    IN  IF InBounds(data, ab[1], ab[2])
        THEN set(data, ab[1], ab[2], cell)
        ELSE data

SetPanics(index_a, index_b) ==
    LET ab == Canon(directed, index_a, index_b)
    IN  ~InBounds(data, ab[1], ab[2])

\* set_edge of an undirected graph kept as a symmetric matrix: the value is
\* written to the slots of both orders
SetEdge_Both(index_a, index_b, v) ==
    LET value == EdgeVal(v, PayloadAt(index_a), PayloadAt(index_b))
        both == IF InBounds(data, index_a, index_b)
                   /\ InBounds(data, index_b, index_a)
                THEN set(set(data, index_a, index_b, Edge(value)),
                         index_b, index_a, Edge(value))
                ELSE data
    IN  /\ data' = IF directed
                   THEN SetCell(index_a, index_b, Edge(value))
                   ELSE both
        /\ plain' = (plain /\ edge(index_a, index_b) = None)
        /\ last' = Call("set_edge", index_a, index_b, value,
                        ValueOf(edge(index_a, index_b)),
                        SetPanics(index_a, index_b))
        /\ UNCHANGED <<directed, nodes, size, adds, removes>>

\* set_edge(index_a, index_b, value)
SetEdge(index_a, index_b, v) ==
    LET value == EdgeVal(v, PayloadAt(index_a), PayloadAt(index_b))
    IN  /\ data' = SetCell(index_a, index_b, Edge(value))
        /\ plain' = (plain /\ edge(index_a, index_b) = None)
        /\ last' = Call("set_edge", index_a, index_b, value,
                        ValueOf(edge(index_a, index_b)),
                        SetPanics(index_a, index_b))
        /\ UNCHANGED <<directed, nodes, size, adds, removes>>

\* remove_edge without the canonical swap
RemoveEdge_Raw(index_a, index_b) ==
    /\ data' = IF InBounds(data, index_a, index_b)
               THEN set(data, index_a, index_b, Empty)
               ELSE data
    /\ plain' = FALSE
    /\ last' = Call("remove_edge", index_a, index_b, NoVal,
                    ValueOf(edge(index_a, index_b)),
                    ~InBounds(data, index_a, index_b))
    /\ UNCHANGED <<directed, nodes, size, adds, removes>>

\* remove_edge(index_a, index_b)
RemoveEdge(index_a, index_b) ==
    /\ data' = SetCell(index_a, index_b, Empty)
    /\ plain' = FALSE
    /\ last' = Call("remove_edge", index_a, index_b, NoVal,
                    ValueOf(edge(index_a, index_b)),
                    SetPanics(index_a, index_b))
    /\ UNCHANGED <<directed, nodes, size, adds, removes>>

----------------------------------------------------------------------------
(* The graph driven with in-range indices only *)

Valid == 0..(node_count - 1)

\* one more mutating call, while the budget lasts
Count ==
    /\ calls < MaxCalls
    /\ calls' = calls + 1
    /\ UNCHANGED <<w, h, edge_refs>>

DoAddNode == Count /\ AddNode

DoRemoveNode == Count /\ \E index \in Valid : RemoveNode(index)

DoSetEdge ==
    Count /\ \E index_a \in Valid, index_b \in Valid, v \in EdgeValues :
                SetEdge(index_a, index_b, v)

DoRemoveEdge ==
    Count /\ \E index_a \in Valid, index_b \in Valid :
                RemoveEdge(index_a, index_b)

Next == DoAddNode \/ DoRemoveNode \/ DoSetEdge \/ DoRemoveEdge

Spec == Init /\ [][Next]_vars

----------------------------------------------------------------------------
(* The graph driven with remove_node indices beyond the nodes as well *)

\* indices at and above node_count
Beyond == node_count..(node_count + 2)

DoRemoveNodeBeyond == Count /\ \E index \in Beyond : RemoveNode(index)

NextRemove == Next \/ DoRemoveNodeBeyond

SpecRemove == Init /\ [][NextRemove]_vars

\* the payload set_node writes (add_node writes serial numbers above 0)
Replacements == {-1}

\* set_node written with Vec::insert instead of an indexed store
SetNode_Insert(index, value) ==
    /\ IF index <= Len(nodes)
       THEN /\ nodes' = SubSeq(nodes, 1, index) \o <<value>>
                          \o SubSeq(nodes, index + 1, Len(nodes))
            /\ last' = Call("set_node", index, 0, value, None, FALSE)
       ELSE /\ UNCHANGED nodes
            /\ last' = Call("set_node", index, 0, value, None, TRUE)
    /\ UNCHANGED <<directed, data, size, adds, removes, plain>>

\* set_node(index, value): self.nodes[index] = value, an indexed store into
\* the Vec, which panics before it writes when index is not below its length
SetNode(index, value) ==
    /\ IF index < Len(nodes)
       THEN /\ nodes' = [nodes EXCEPT ![index + 1] = value]
            /\ last' = Call("set_node", index, 0, value, None, FALSE)
       ELSE /\ UNCHANGED nodes
            /\ last' = Call("set_node", index, 0, value, None, TRUE)
    /\ UNCHANGED <<directed, data, size, adds, removes, plain>>

DoSetNode ==
    Count /\ \E index \in Valid, value \in Replacements : SetNode(index, value)

DoSetNodeBeyond ==
    Count /\ \E index \in Beyond, value \in Replacements : SetNode(index, value)

NextSetNode == Next \/ DoSetNode \/ DoSetNodeBeyond

SpecSetNode == Init /\ [][NextSetNode]_vars

----------------------------------------------------------------------------
(* The graph driven with set_edge and remove_edge indices beyond the nodes
   as well *)

\* the pairs of indices of which one at least is at or above node_count
BeyondPairs ==
    {ab \in (0..(node_count + 1)) \X (0..(node_count + 1)) :
        ab[1] >= node_count \/ ab[2] >= node_count}

DoSetEdgeBeyond ==
    Count /\ \E ab \in BeyondPairs, v \in EdgeValues : SetEdge(ab[1], ab[2], v)

DoRemoveEdgeBeyond ==
    Count /\ \E ab \in BeyondPairs : RemoveEdge(ab[1], ab[2])

NextEdges == Next \/ DoSetEdgeBeyond \/ DoRemoveEdgeBeyond

SpecEdges == Init /\ [][NextEdges]_vars

----------------------------------------------------------------------------
(* The maze program: a grid graph carved by the modified Kruskal loop *)

\* the elements of a sequence
Range(seq) == {seq[k] : k \in DOMAIN seq}

\* the matrix after n calls of add_node on a new graph
RECURSIVE GridSlots(_)
GridSlots(n) == IF n = 0 THEN <<>> ELSE push_default(GridSlots(n - 1), n - 1)

\* the pairs the two grid loops call set_edge with: a cell and its left
\* neighbour, a cell and its upper neighbour
GridPairs(width, height) ==
    {<<y * width + x, y * width + x - 1>> :
        x \in 1..(width - 1), y \in 0..(height - 1)}
    \cup
    {<<y * width + x, y * width + x - width>> :
        x \in 0..(width - 1), y \in 1..(height - 1)}

\* set_edge(index_a, index_b, Cell::new(false)) for every pair of a set, on an
\* undirected graph
RECURSIVE GridEdges(_, _)
GridEdges(d, pairs) ==
    IF pairs = {}
    THEN d
    ELSE LET p == CHOOSE q \in pairs : TRUE
             ab == Canon(FALSE, p[1], p[2])
         IN  GridEdges(set(d, ab[1], ab[2], Edge(FALSE)), pairs \ {p})

\* the state when the Kruskal loop starts: node i carries group i, every grid
\* edge carries false, and the queue holds every EdgeRef of graph.edges()
InitMaze ==
    /\ w \in 1..MaxCells
    /\ h \in 1..MaxCells
    /\ w * h <= MaxCells
    /\ directed = FALSE
    /\ nodes = [i \in 1..(w * h) |-> i - 1]
    /\ data = GridEdges(GridSlots(w * h), GridPairs(w, h))
    /\ size = w * h
    /\ adds = w * h
    /\ removes = 0
    /\ calls = 0
    /\ plain = TRUE
    /\ last = Call("new", 0, 0, NoVal, None, FALSE)
    /\ edge_refs = Range(EdgesOf(data))

\* the relabelling that moves only the first node of group b
Merge_First(ns, a, b) ==
    [k \in DOMAIN ns |->
        IF ns[k] = b /\ \A j \in 1..(k - 1) : ns[j] # b THEN a ELSE ns[k]]

\* graph.nodes().filter(|n| n.value().get() == b).for_each(|n| n.value().set(a))
Merge(ns, a, b) == [k \in DOMAIN ns |-> IF ns[k] = b THEN a ELSE ns[k]]

\* one turn of the loop over the shuffled queue; the shuffle makes every
\* order possible, so the turn takes any EdgeRef not visited yet
KruskalStep ==
    \E e \in edge_refs :
        LET a == EdgeRef_a(e).value
            b == EdgeRef_b(e).value
        IN  /\ edge_refs' = edge_refs \ {e}
            /\ IF a # b
               THEN /\ nodes' = Merge(nodes, a, b)
                    /\ data' = set(data, e.index_a, e.index_b, Edge(TRUE))
               ELSE UNCHANGED <<nodes, data>>
            /\ UNCHANGED <<directed, size, adds, removes, calls, plain, last,
                           w, h>>

NextMaze == KruskalStep

SpecMaze == InitMaze /\ [][NextMaze]_vars

----------------------------------------------------------------------------
(* Properties *)

\* the indices queries are probed with: the valid ones and the two beyond
Probe == 0..(node_count + 1)

\* the index a node at old index k has after the node at r is removed
Renumbered(k, r) == IF k < r THEN k ELSE k - 1

\* TRUE when the edge payload e was handed to a set_edge call that named
\* the nodes of payloads na and nb (in that order when directed)
Joins(dir, e, na, nb) ==
    IF dir THEN e.from = na /\ e.to = nb ELSE {e.from, e.to} = {na, nb}

\* C1: after remove_node(r), every edge between two surviving nodes is found
\* at the renumbered pair with its old value (or is absent before and after)
C1_RemoveNodeKeepsEdges ==
    [][(last'.op = "remove_node" /\ ~last'.panic) =>
        \A i \in Valid \ {last'.a}, j \in Valid \ {last'.a} :
            ValueOf(EdgeIn(directed', nodes', data',
                           Renumbered(i, last'.a), Renumbered(j, last'.a)))
                = ValueOf(edge(i, j))]_vars

\* C2: every edge observable through edge() or edges() was put there by a
\* set_edge between the two nodes now at its index pair; no edge of a removed
\* node is observable anywhere
C2_EdgesJoinPresentNodes ==
    /\ \A a \in Valid, b \in Valid :
          IsSome(edge(a, b)) =>
              Joins(directed, edge(a, b).val.value, nodes[a + 1], nodes[b + 1])
    /\ \A k \in DOMAIN edges :
          /\ edges[k].index_a \in Valid
          /\ edges[k].index_b \in Valid
          /\ Joins(directed, edges[k].value,
                   nodes[edges[k].index_a + 1], nodes[edges[k].index_b + 1])

\* C3: node_count is the number of add_node calls minus the number of
\* remove_node calls, and node(i) is present exactly for i < node_count
C3_NodeCountDense ==
    /\ node_count = adds - removes
    /\ \A i \in Probe : IsSome(node(i)) <=> i < node_count
    /\ \A i \in Probe : i >= node_count => node(i) = None

C3_Witness == adds >= 3 /\ removes >= 1 /\ node_count >= 1

\* C4: remove_node(r) on n nodes leaves the payloads below r in place, moves
\* those above r down by one, and leaves node(n - 1) absent
C4_RemoveNodeRenumbersNodes ==
    [][(last'.op = "remove_node" /\ ~last'.panic) =>
        /\ \A i \in 0..(node_count - 2) :
              NodeIn(nodes', i) =
                  Some(NodeRef(i, nodes[(IF i < last'.a THEN i ELSE i + 1) + 1]))
        /\ NodeIn(nodes', node_count - 1) = None]_vars

C4_Witness ==
    /\ last.op = "remove_node"
    /\ ~last.panic
    /\ 0 < last.a
    /\ last.a < node_count

\* C5: in an undirected graph edge(p, q) and edge(q, p) return the same value
\* or both nothing
C5_UndirectedOrderIndependent ==
    ~directed =>
        \A p \in Valid, q \in Valid : ValueOf(edge(p, q)) = ValueOf(edge(q, p))

C5_Witness ==
    /\ ~directed
    /\ removes >= 1
    /\ last.op = "set_edge"
    /\ last.a < last.b
    /\ IsSome(edge(last.b, last.a))

\* C6: in a directed graph a set_edge or remove_edge on (p, q), p # q, leaves
\* what edge(q, p) returns unchanged, and after set_edge(p, q, v1) followed by
\* set_edge(q, p, v2) edge(p, q) yields v1 and edge(q, p) yields v2
C6_DirectedSlotsIndependent ==
    [][(directed /\ last'.op \in {"set_edge", "remove_edge"}
                 /\ last'.a # last'.b /\ ~last'.panic) =>
        /\ EdgeIn(directed', nodes', data', last'.b, last'.a)
              = edge(last'.b, last'.a)
        /\ (last.op = "set_edge" /\ last'.op = "set_edge"
                /\ last.a = last'.b /\ last.b = last'.a) =>
              /\ ValueOf(EdgeIn(directed', nodes', data', last.a, last.b))
                    = Some(last.v)
              /\ ValueOf(EdgeIn(directed', nodes', data', last'.a, last'.b))
                    = Some(last'.v)]_vars

C6_Witness ==
    /\ directed
    /\ last.op = "set_edge"
    /\ last.a # last.b
    /\ IsSome(edge(last.a, last.b))
    /\ IsSome(edge(last.b, last.a))
    /\ edge(last.a, last.b).val.value.v # edge(last.b, last.a).val.value.v

\* C7: edge(a, b) right after set_edge(a, b, v) yields v, also when the pair
\* held an edge before
C7_SetThenGet ==
    (last.op = "set_edge" /\ ~last.panic) =>
        ValueOf(edge(last.a, last.b)) = Some(last.v)

C7_Witness ==
    /\ last.op = "set_edge"
    /\ ~last.panic
    /\ IsSome(last.old)
    /\ last.old # Some(last.v)

\* C8: edge_count is k after k set_edge calls on distinct pairs and nothing
\* else but add_node; remove_edge on an existing edge lowers it by one; a
\* remove_edge on a pair without an edge changes nothing of the graph
C8_EdgeCount ==
    /\ [](plain => edge_count = calls - adds)
    /\ [][(last'.op = "remove_edge" /\ ~last'.panic) =>
            IF IsSome(last'.old)
            THEN CountEdges(data') = edge_count - 1
            ELSE UNCHANGED <<directed, nodes, data, size>>]_vars

C8_Witness ==
    /\ last.op = "remove_edge"
    /\ last.old = None
    /\ edge_count >= 1
    /\ removes >= 1

\* C9: after remove_edge(a, b) edge(a, b) returns nothing, and so does
\* edge(b, a) in an undirected graph
C9_RemovedEdgeGone ==
    (last.op = "remove_edge" /\ ~last.panic) =>
        /\ edge(last.a, last.b) = None
        /\ ~directed => edge(last.b, last.a) = None

C9_Witness ==
    /\ last.op = "remove_edge"
    /\ ~last.panic
    /\ IsSome(last.old)
    /\ ~directed
    /\ last.a < last.b

\* C10: node(i) and edge(a, b) never panic; node(i) is nothing exactly when
\* i >= node_count; edge(a, b) is nothing exactly when a or b is >= node_count
\* or the cell of the canonical pair is Empty
C10_QueriesNeverPanic ==
    /\ \A i \in Probe :
          /\ node(i) # Panic
          /\ node(i) = None <=> i >= node_count
    /\ \A a \in Probe, b \in Probe :
          LET ab == Canon(directed, a, b)
              got == edge(a, b)
          IN  /\ got # Panic
              /\ got = None <=>
                    \/ a >= node_count
                    \/ b >= node_count
                    \/ (InBounds(data, ab[1], ab[2])
                            /\ is_empty(get(data, ab[1], ab[2])))

C10_Witness ==
    /\ removes >= 1
    /\ last.op = "add_node"
    /\ node_count >= 2
    /\ edge_count >= 1

----------------------------------------------------------------------------
(* Band order of edges *)

Band(e) == IF e.index_a > e.index_b THEN e.index_a ELSE e.index_b

LargerFirst(e) == e.index_a > e.index_b

Minor(e) == IF e.index_a > e.index_b THEN e.index_b ELSE e.index_a

\* e comes before f: lower band first; within a band the larger-first pairs
\* by ascending smaller index, then the larger-second pairs likewise
BandBefore(e, f) ==
    \/ Band(e) < Band(f)
    \/ /\ Band(e) = Band(f)
       /\ \/ LargerFirst(e) /\ ~LargerFirst(f)
          \/ LargerFirst(e) = LargerFirst(f) /\ Minor(e) < Minor(f)

BandOrdered(es) ==
    \A k \in DOMAIN es, l \in DOMAIN es : k < l => BandBefore(es[k], es[l])

\* C11: edges() yields one EdgeRef per non-Empty cell, each naming the pair
\* whose cell it is, so its length is edge_count(), and yields them in band
\* order
C11_EdgesInBandOrder ==
    LET es == edges
    IN  /\ Len(es) = edge_count
        /\ Len(es) = Cardinality({i \in DOMAIN data : is_edge(data[i])})
        /\ \A k \in DOMAIN es :
              LET e == es[k]
              IN  /\ InBounds(data, e.index_a, e.index_b)
                  /\ get(data, e.index_a, e.index_b) = Edge(e.value)
        /\ BandOrdered(es)

\* three edges, the one set last not yielded last
C11_Witness ==
    /\ directed
    /\ Len(edges) >= 3
    /\ last.op = "set_edge"
    /\ edges[Len(edges)].value # last.v
    /\ \E k \in DOMAIN edges : LargerFirst(edges[k])
    /\ \E k \in DOMAIN edges : ~LargerFirst(edges[k])

\* the edges of the graph that have p as an endpoint, as edge() returns them
EdgesAt(p) ==
    {edge(a, b).val : a \in {x \in Valid : IsSome(edge(x, p))}, b \in {p}}
        \cup {edge(a, b).val : a \in {p}, b \in {y \in Valid : IsSome(edge(p, y))}}

\* C12: the adjacent-edge iteration of node p yields exactly the edges of the
\* graph with p as an endpoint, each once, in band order
C12_AdjacentEdges ==
    [](\A p \in Valid :
          LET adj == iter_edges(p)
          IN  /\ Range(adj) = EdgesAt(p)
              /\ BandOrdered(adj))

\* a node with an incoming edge, an outgoing edge and a self-loop, in a graph
\* that has a further edge
C12_Witness ==
    /\ directed
    /\ \E p \in Valid :
          /\ \E k \in DOMAIN iter_edges(p) :
                iter_edges(p)[k].index_a = p /\ iter_edges(p)[k].index_b # p
          /\ \E k \in DOMAIN iter_edges(p) :
                iter_edges(p)[k].index_a # p /\ iter_edges(p)[k].index_b = p
          /\ \E k \in DOMAIN iter_edges(p) :
                iter_edges(p)[k].index_a = p /\ iter_edges(p)[k].index_b = p
          /\ Len(iter_edges(p)) < Len(edges)

\* the number of elements of es that join p and q
Times(es, p, q) ==
    Cardinality({k \in DOMAIN es : {es[k].index_a, es[k].index_b} = {p, q}})

\* C13: in an undirected graph an edge between distinct nodes p and q appears
\* once in edges() and once in the adjacent-edge iteration of p and of q
C13_UndirectedEdgeOnce ==
    [](~directed =>
          LET es == edges
              adj == [p \in Valid |-> iter_edges(p)]
          IN  \A p \in Valid, q \in Valid :
                  (p # q /\ IsSome(edge(p, q))) =>
                      /\ Times(es, p, q) = 1
                      /\ Times(adj[p], p, q) = 1
                      /\ Times(adj[q], p, q) = 1)

\* an edge set smaller index first, in a graph that lost a node
C13_Witness ==
    /\ ~directed
    /\ removes >= 1
    /\ last.op = "set_edge"
    /\ last.a < last.b
    /\ Times(edges, last.a, last.b) = 1
    /\ Len(edges) >= 2

\* every EdgeRef that edge(), edges() or an adjacent-edge iteration produces
Produced ==
    Range(edges)
        \cup UNION {Range(iter_edges(p)) : p \in Valid}
        \cup {edge(ab[1], ab[2]).val :
                 ab \in {xy \in Probe \X Probe : IsSome(edge(xy[1], xy[2]))}}

\* C14: a() and b() of every produced EdgeRef return a node: both stored
\* indices are below node_count
C14_EdgeRefEndsValid ==
    [](\A e \in Produced :
          /\ e.index_a < node_count
          /\ e.index_b < node_count
          /\ EdgeRef_a(e) # Panic
          /\ EdgeRef_b(e) # Panic)

\* edges in a matrix that holds more slots than node_count squared
C14_Witness ==
    /\ removes >= 1
    /\ Len(data) > node_count * node_count
    /\ Len(edges) >= 2
    /\ \E p \in Valid : Len(iter_edges(p)) >= 1

\* C15: a fresh nodes() yields the NodeRefs of index 0, 1, ..., node_count - 1
\* in that order, each with the payload at its index, and nothing on every
\* call after them
C15_NodesInOrder ==
    LET out == NodeIteratorRun(nodes, NodeIterator_new, node_count + 2)
    IN  \A k \in DOMAIN out :
            out[k] = IF k <= node_count
                     THEN Some(NodeRef(k - 1, nodes[k]))
                     ELSE None

\* two or more nodes, the first one added no longer among them
C15_Witness ==
    /\ node_count >= 2
    /\ removes >= 1
    /\ nodes[1] # 1
    /\ last.op = "add_node"

\* C16: remove_node(index) with index >= node_count fails and leaves the
\* node sequence, the cell store and the recorded size of the matrix as they
\* were
C16_FailedRemoveNodeChangesNothing ==
    [][(last'.op = "remove_node" /\ last'.a >= node_count) =>
        /\ last'.panic
        /\ UNCHANGED <<nodes, data, size>>]_vars

\* a value returned by a call
Returned(x) == [tag |-> "Value", val |-> x]

\* C17 as stated: add_node(value) returns the index of the new node, which
\* is node_count() before the call, and node(that index) then yields value
\* (the value passed is adds + 1, the serial number of the call)
C17_AddNodeReturnsIndex ==
    [][last'.op = "add_node" =>
        /\ last'.ret = Returned(node_count)
        /\ NodeIn(nodes', node_count)
              = Some(NodeRef(node_count, adds + 1))]_vars

\* C17 amended: add_node(value) returns nothing; the new node gets the index
\* node_count() had before the call, and node(that index) then yields value
C17_AddNodeAssignsIndex ==
    [][last'.op = "add_node" =>
        /\ last'.ret = Unit
        /\ Len(nodes') = node_count + 1
        /\ NodeIn(nodes', node_count)
              = Some(NodeRef(node_count, adds + 1))]_vars

\* a node added to a graph that holds nodes and has lost some
C17_Witness ==
    /\ last.op = "add_node"
    /\ ~last.panic
    /\ last.a >= 1
    /\ last.a < adds - 1
    /\ node(last.a) = Some(NodeRef(last.a, adds))

\* C18: set_node(index, value) with index < node_count replaces the payload
\* of that node only: node_count, the other nodes, every edge(a, b) and the
\* edges() sequence stay as they were; with index >= node_count it panics
\* and the graph is left as it was
C18_SetNodeFrame ==
    [][last'.op = "set_node" =>
        IF last'.a < node_count
        THEN /\ ~last'.panic
             /\ Len(nodes') = node_count
             /\ NodeIn(nodes', last'.a) = Some(NodeRef(last'.a, last'.v))
             /\ \A k \in Probe :
                    k # last'.a => NodeIn(nodes', k) = NodeIn(nodes, k)
             /\ \A a \in Probe : \A b \in Probe :
                    EdgeIn(directed', nodes', data', a, b)
                        = EdgeIn(directed, nodes, data, a, b)
             /\ EdgesOf(data') = EdgesOf(data)
        ELSE /\ last'.panic
             /\ UNCHANGED <<directed, nodes, data, size>>]_vars

\* set_node has replaced one payload of a graph of several nodes that holds
\* an edge and has lost a node
C18_Witness ==
    /\ last.op = "set_node"
    /\ ~last.panic
    /\ node_count >= 2
    /\ removes >= 1
    /\ edge_count >= 1
    /\ node(last.a) = Some(NodeRef(last.a, last.v))
    /\ \E k \in Valid : nodes[k + 1] > 0

\* C20: every add_node grows the matrix by exactly 2k + 1 Empty slots, k
\* being node_count() before the call, also after earlier removals; hence
\* the matrix holds node_count() squared slots after every operation
C20_AppendGrowsOneBand ==
    /\ [](Len(data) = node_count * node_count)
    /\ [][last'.op = "add_node" =>
            /\ Len(data') = Len(data) + 2 * node_count + 1
            /\ SubSeq(data', 1, Len(data)) = data
            /\ \A k \in (Len(data) + 1)..Len(data') : is_empty(data'[k])]_vars

\* C21: while no node has been removed, the matrix holds N squared slots
\* after N appends and its recorded size is N; the slots an append adds are
\* Empty and the older slots keep what they held
C21_AppendsOnly ==
    /\ [](removes = 0 =>
            /\ Len(data) = adds * adds
            /\ size = adds
            /\ node_count = adds)
    /\ [][(last'.op = "add_node" /\ removes' = 0) =>
            /\ Len(data') = (adds + 1) * (adds + 1)
            /\ SubSeq(data', 1, Len(data)) = data
            /\ \A k \in (Len(data) + 1)..Len(data') : is_empty(data'[k])]_vars

\* a third append to a matrix that holds an edge and has lost no node
C21_Witness ==
    /\ removes = 0
    /\ last.op = "add_node"
    /\ adds >= 3
    /\ Len(data) = adds * adds
    /\ edge_count >= 1

\* the pair a triple of the matrix iterator names, as an EdgeRef names it
PairOf(t) == [index_a |-> t[1], index_b |-> t[2]]

\* C22: the matrix iterator yields one triple for every ordered pair of
\* indices below node_count, and for no other pair, in band order
C22_IterCoversPairs ==
    LET its == iter(data)
        pairs == [k \in DOMAIN its |-> PairOf(its[k])]
    IN  /\ Len(its) = node_count * node_count
        /\ Range(pairs) = {[index_a |-> x, index_b |-> y] : x \in Valid, y \in Valid}
        /\ BandOrdered(pairs)

\* C23: with n nodes appended, get and set address the ordered pairs of
\* indices below n one to one onto the offsets 0 .. n*n - 1: band k starts
\* at k*k, holds (k, j), j < k, at position j and (j, k), j <= k, at position
\* k + j, the self pair last; and every triple of iter() sits at the offset
\* of its pair and carries the cell get returns for it
C23_Addressing ==
    [](LET n == size
           N == 0..(n - 1)
           its == iter(data)
       IN  /\ \A x \in N, y \in N : FlatIndex(x, y) \in 0..(n * n - 1)
           /\ Cardinality({FlatIndex(x, y) : x \in N, y \in N}) = n * n
           /\ \A k \in N :
                 /\ \A j \in 0..(k - 1) : FlatIndex(k, j) = k * k + j
                 /\ \A j \in 0..k : FlatIndex(j, k) = k * k + k + j
                 /\ FlatIndex(k, k) = k * k + chunk_len(k) - 1
           /\ \A i \in DOMAIN its :
                 /\ FlatIndex(its[i][1], its[i][2]) = i - 1
                 /\ its[i][3] = get(data, its[i][1], its[i][2]))

\* three nodes appended, an edge in each half of a band
C23_Witness ==
    /\ directed
    /\ size >= 3
    /\ \E x \in Valid, y \in Valid :
          /\ x < y
          /\ is_edge(get(data, x, y))
          /\ is_edge(get(data, y, x))
          /\ get(data, x, y) # get(data, y, x)

\* C24: set_edge or remove_edge with an index >= node_count panics and
\* leaves the nodes and the storage of the matrix as they were
C24_EdgeCallBeyondFaults ==
    [][(/\ last'.op \in {"set_edge", "remove_edge"}
        /\ (last'.a >= node_count \/ last'.b >= node_count)) =>
            /\ last'.panic
            /\ UNCHANGED <<nodes, data, size>>]_vars

\* TRUE when (c, d) names the pair (a, b): the same ordered pair of a
\* directed graph, the same unordered pair of an undirected one
SamePair(dir, a, b, c, d) ==
    IF dir THEN <<a, b>> = <<c, d>> ELSE {a, b} = {c, d}

\* C25: set_edge(a, b, v) and remove_edge(a, b) with a, b < node_count do
\* not panic, leave the nodes as they were and leave edge(c, d) as it was
\* for every pair other than (a, b)
C25_EdgeCallFrame ==
    [][(/\ last'.op \in {"set_edge", "remove_edge"}
        /\ last'.a < node_count
        /\ last'.b < node_count) =>
            /\ ~last'.panic
            /\ nodes' = nodes
            /\ Len(data') = Len(data)
            /\ \A c \in Valid, d \in Valid :
                  ~SamePair(directed, last'.a, last'.b, c, d) =>
                      EdgeIn(directed', nodes', data', c, d)
                          = EdgeIn(directed, nodes, data, c, d)]_vars

\* an edge set in a directed graph whose mirror pair holds another edge
C25_Witness ==
    /\ directed
    /\ last.op = "set_edge"
    /\ ~last.panic
    /\ last.a # last.b
    /\ IsSome(edge(last.a, last.b))
    /\ IsSome(edge(last.b, last.a))
    /\ edge(last.a, last.b).val.value # edge(last.b, last.a).val.value
    /\ edge_count >= 3

\* C26: add_node leaves the payload of every node and edge(a, b) of every
\* pair of nodes as they were; the new node has no edge, edge(new, j) and
\* edge(j, new) being nothing for every j; edge_count() is as it was
C26_AddNodeFrame ==
    [][last'.op = "add_node" =>
        /\ \A k \in Valid : NodeIn(nodes', k) = NodeIn(nodes, k)
        /\ \A a \in Valid, b \in Valid :
              EdgeIn(directed', nodes', data', a, b)
                  = EdgeIn(directed, nodes, data, a, b)
        /\ \A j \in 0..node_count :
              /\ EdgeIn(directed', nodes', data', node_count, j) = None
              /\ EdgeIn(directed', nodes', data', j, node_count) = None
        /\ CountEdges(data') = CountEdges(data)]_vars

\* a node added to a graph that holds edges and has lost a node, the matrix
\* holding more slots than the nodes need
C26_Witness ==
    /\ last.op = "add_node"
    /\ removes >= 1
    /\ node_count >= 3
    /\ edge_count >= 1
    /\ Len(data) > node_count * node_count
    /\ edge(node_count - 1, 0) = None

\* C27: under in-range calls the matrix holds at least node_count squared
\* slots, the slot of every pair of nodes is within data, and set_edge and
\* remove_edge never panic
C27_InRangeNeverOutOfBounds ==
    /\ [](/\ Len(data) >= node_count * node_count
          /\ \A a \in Valid, b \in Valid :
                /\ InBounds(data, a, b)
                /\ edge(a, b) # Panic)
    /\ [][last'.op \in {"set_edge", "remove_edge"} => ~last'.panic]_vars

\* an edge call on the self pair of the last band, in a graph that lost a
\* node and gained one since
C27_Witness ==
    /\ removes >= 1
    /\ node_count >= 2
    /\ Len(data) > node_count * node_count
    /\ last.op \in {"set_edge", "remove_edge"}
    /\ ~last.panic
    /\ last.a = node_count - 1
    /\ last.b = node_count - 1

\* the edges of the maze marked true, as unordered pairs of cells
Marked ==
    {{e.index_a, e.index_b} : e \in {f \in Range(edges) : f.value = TRUE}}

\* the cells reached from the cells of S along the pairs of E
RECURSIVE ReachFrom(_, _)
ReachFrom(S, E) ==
    LET T == S \cup {c \in Valid : \E s \in S : {s, c} \in E}
    IN  IF T = S THEN S ELSE ReachFrom(T, E)

\* the unordered pairs of neighbouring cells of the grid
GridNeighbours == {{p[1], p[2]} : p \in GridPairs(w, h)}

\* C28: when the Kruskal loop has visited every edge, all nodes carry the
\* same group, w * h - 1 edges are marked, and the marked edges are grid
\* edges that connect every cell: a spanning tree of the grid
C28_MazeIsSpanningTree ==
    edge_refs = {} =>
        /\ \A i \in Valid, j \in Valid : nodes[i + 1] = nodes[j + 1]
        /\ Cardinality(Marked) = w * h - 1
        /\ Marked \subseteq GridNeighbours
        /\ ReachFrom({0}, Marked) = Valid

\* a finished maze of two rows and three columns, with edges left unmarked
C28_Witness ==
    /\ edge_refs = {}
    /\ w = 3
    /\ h = 2
    /\ Cardinality(Marked) = 5
    /\ Cardinality(Range(edges)) = 7
    /\ ReachFrom({0}, Marked) = Valid

====
